---- MODULE Spec2Model ----
(***************************************************************************)
(* Model of hello-opencl3 (src/src/main.rs): the host thread of `main`     *)
(* walking through its OpenCL calls, and the device executing the commands *)
(* the host has enqueued on its single command queue.                      *)
(*                                                                         *)
(* cl_float values are modelled as integers: every value the program       *)
(* handles (1.0, 1.0 + i, 300.0, a*x[i] + y[i] for i < 1024) is an integer *)
(* below 2^24 and therefore exact in IEEE single precision.                *)
(***************************************************************************)
EXTENDS Integers, Sequences, FiniteSets, TLC

\* ------------------------------------------------------------------ bounds
\* Number of GPU devices the platform may enumerate (0 .. MaxDevices).
MaxDevices == 2
\* Largest value of the device's profiling clock (nanoseconds, abstracted).
MaxTime == 1

\* ------------------------------------------------------- program constants
ARRAY_SIZE == 1024
a == 300

KERNEL_NAME == "saxpy_float"

CL_NON_BLOCKING == FALSE
CL_BLOCKING == TRUE
CL_QUEUE_PROFILING_ENABLE == "CL_QUEUE_PROFILING_ENABLE"
CL_QUEUE_OUT_OF_ORDER_EXEC_MODE_ENABLE == "CL_QUEUE_OUT_OF_ORDER_EXEC_MODE_ENABLE"
CL_MEM_READ_ONLY == "CL_MEM_READ_ONLY"
CL_MEM_WRITE_ONLY == "CL_MEM_WRITE_ONLY"

Indices == 0 .. (ARRAY_SIZE - 1)

\* Contents of device memory that no command has written yet.
Undef == -1

\* let ones: [cl_float; ARRAY_SIZE] = [1.0; ARRAY_SIZE];
ones == [i \in Indices |-> 1]

\* sums[i] = 1.0 + 1.0 * i as cl_float
sums == [i \in Indices |-> 1 + 1 * i]

\* let mut result: [cl_float; ARRAY_SIZE] = [0.0; ARRAY_SIZE];
Zeros == [i \in Indices |-> 0]

Uninit == [i \in Indices |-> Undef]

HostArray(name) == IF name = "ones" THEN ones ELSE sums

\* kernel void saxpy_float(z, x, y, a): z[i] = a*x[i] + y[i], i = get_global_id(0)
saxpy_float(x, y, s, gws) ==
    [i \in Indices |->
        IF i < gws
        THEN IF x[i] = Undef \/ y[i] = Undef THEN Undef ELSE s * x[i] + y[i]
        ELSE Undef]

\* ------------------------------------------------------------------- state
VARIABLES
    pc,             \* the call of main the host thread is at
    panic,          \* message of the panic that ended the run, "none" otherwise
    cl_error,       \* backend status of the failed call, "CL_SUCCESS" otherwise
    devices,        \* what get_all_devices returned
    device_id,      \* 0 = not yet chosen
    device,         \* Device::new(device_id); 0 = not constructed
    context,        \* [created, devices]
    queue,          \* [created, device, properties]
    queue_size,     \* [tag, size]: unset / None / Some(size)
    program,        \* TRUE once built
    kernel,         \* name of the kernel handle, "" before Kernel::create
    buffers,        \* device buffers allocated so far: name -> access flag
    x_write_event, y_write_event, kernel_event, read_event, \* 0 = not returned
    fifo,           \* commands enqueued on the queue, in submission order
    mem,            \* device memory of the three buffers
    clock,          \* device profiling clock
    result,         \* host result array
    stdout,         \* lines printed with println!
    log,            \* lines emitted through tracing
    start_time, end_time, duration

hostObjs == <<devices, device_id, device, context, queue, queue_size, program, kernel>>
eventVars == <<x_write_event, y_write_event, kernel_event, read_event>>
devVars == <<fifo, mem, clock>>
outVars == <<stdout, log>>
profVars == <<start_time, end_time, duration>>
vars == <<pc, panic, cl_error, hostObjs, buffers, eventVars, devVars, result, outVars, profVars>>

DeviceIds == 1 .. MaxDevices

\* The lists get_all_devices may return: distinct device ids, in any order.
DeviceLists ==
    {<<>>} \cup
    UNION {{s \in [1 .. n -> DeviceIds] : \A i, j \in 1 .. n : i /= j => s[i] /= s[j]}
           : n \in 1 .. MaxDevices}

QueueSizeUnset == [tag |-> "unset", size |-> 0]
QueueSizeNone == [tag |-> "None", size |-> 0]
QueueSizeSome(n) == [tag |-> "Some", size |-> n]
QueueSizeValues == {0, 16}

Init ==
    /\ pc = "get_all_devices"
    /\ panic = "none"
    /\ cl_error = "CL_SUCCESS"
    /\ devices = <<>>
    /\ device_id = 0
    /\ device = 0
    /\ context = [created |-> FALSE, devices |-> <<>>]
    /\ queue = [created |-> FALSE, device |-> 0, properties |-> {}]
    /\ queue_size = QueueSizeUnset
    /\ program = FALSE
    /\ kernel = ""
    /\ buffers = [b \in {} |-> ""]
    /\ x_write_event = 0
    /\ y_write_event = 0
    /\ kernel_event = 0
    /\ read_event = 0
    /\ fifo = <<>>
    /\ mem = [b \in {"x", "y", "z"} |-> Uninit]
    /\ clock = 0
    /\ result = Zeros
    /\ stdout = <<>>
    /\ log = <<>>
    /\ start_time = 0
    /\ end_time = 0
    /\ duration = 0

\* ------------------------------------------------------------ host helpers
Complete(e) == e \in DOMAIN fifo /\ fifo[e].status = "complete"

\* The host thread is inside an enqueue call made with CL_BLOCKING.
InBlockingCall == \E e \in DOMAIN fifo : fifo[e].blocking /\ fifo[e].status /= "complete"

\* Variant: the failed call's error is swallowed and the thread carries on.
RunningAfterPanic == pc /= "done" /\ ~InBlockingCall

\* The host thread is alive and free to make its next call.
Running == panic = "none" /\ pc /= "done" /\ ~InBlockingCall

\* .unwrap() / .expect(msg) on an Err: the thread panics where it stands.
Fail(msg, err) ==
    /\ panic' = msg
    /\ cl_error' = err
    /\ UNCHANGED <<pc, hostObjs, buffers, eventVars, devVars, result, outVars, profVars>>

BackendErrors == {"CL_OUT_OF_RESOURCES"}

Command(op, target, src, args, scalar, gws, wait, blocking) ==
    [op |-> op, target |-> target, src |-> src, args |-> args, scalar |-> scalar,
     gws |-> gws, wait |-> wait, blocking |-> blocking,
     status |-> "queued", start |-> 0, end |-> 0]

\* ------------------------------------------------------------ host actions
\* get_all_devices(CL_DEVICE_TYPE_GPU).expect(..).first().expect("No device found")
\* Variant: the last enumerated device is taken.
LastDevice(devs) == devs[Len(devs)]

FirstDevice(devs) == devs[1]

GetAllDevices ==
    /\ Running /\ pc = "get_all_devices"
    /\ \/ \E err \in BackendErrors : Fail("get_all_devices failed", err)
       \/ \E devs \in DeviceLists :
            IF devs = <<>>
            THEN /\ panic' = "No device found"
                 /\ devices' = devs
                 /\ UNCHANGED <<pc, cl_error, device_id, device, context, queue, queue_size,
                                program, kernel, buffers, eventVars, devVars, result,
                                outVars, profVars>>
            ELSE /\ devices' = devs
                 /\ device_id' = FirstDevice(devs)
                 /\ log' = Append(log, "Found device")
                 /\ pc' = "device_new"
                 /\ UNCHANGED <<panic, cl_error, device, context, queue, queue_size, program,
                                kernel, buffers, eventVars, devVars, result, stdout, profVars>>

\* let device = Device::new(device_id);
DeviceNew ==
    /\ Running /\ pc = "device_new"
    /\ device' = device_id
    /\ log' = Append(log, "Constructed device")
    /\ pc' = "context"
    /\ UNCHANGED <<panic, cl_error, devices, device_id, context, queue, queue_size, program,
                   kernel, buffers, eventVars, devVars, result, stdout, profVars>>

\* Context::from_device(&device).map_err(..).unwrap()
ContextFromDevice ==
    /\ Running /\ pc = "context"
    /\ \/ \E err \in BackendErrors : Fail("Context::from_device failed", err)
       \/ /\ context' = [created |-> TRUE, devices |-> <<device>>]
          /\ log' = Append(log, "Constructed context")
          /\ pc' = "queue"
          /\ UNCHANGED <<panic, cl_error, devices, device_id, device, queue, queue_size,
                         program, kernel, buffers, eventVars, devVars, result, stdout,
                         profVars>>

\* Variant: the queue is created without profiling.
QueuePropertiesNone == {}

\* The properties main passes to create_default_with_properties.
QueueProperties == {CL_QUEUE_PROFILING_ENABLE}

\* CommandQueue::create_default_with_properties(&context, CL_QUEUE_PROFILING_ENABLE, 0):
\* a queue on the context's default (first) device.
CreateQueue ==
    /\ Running /\ pc = "queue"
    /\ \/ \E err \in BackendErrors : Fail("Failed to create queue", err)
       \/ /\ queue' = [created |-> TRUE, device |-> context.devices[1],
                       properties |-> QueueProperties]
          /\ pc' = "queue_size"
          /\ UNCHANGED <<panic, cl_error, devices, device_id, device, context, queue_size,
                         program, kernel, buffers, eventVars, devVars, result, outVars,
                         profVars>>

\* Variant: the queue-size query is unwrapped like every other call.
QueueSizeUnwrapped ==
    /\ Running /\ pc = "queue_size"
    /\ \/ \E err \in BackendErrors : Fail("Failed to get queue size", err)
       \/ /\ \E n \in QueueSizeValues : queue_size' = QueueSizeSome(n)
          /\ log' = Append(log, "Created queue with size")
          /\ pc' = "build"
          /\ UNCHANGED <<panic, cl_error, devices, device_id, device, context, queue,
                         program, kernel, buffers, eventVars, devVars, result, stdout,
                         profVars>>

\* if let Ok(size) = queue.size().map_err(..) { Some(size) } else { None }
QueueSize ==
    /\ Running /\ pc = "queue_size"
    /\ \/ queue_size' = QueueSizeNone
       \/ \E n \in QueueSizeValues : queue_size' = QueueSizeSome(n)
    /\ log' = Append(log, "Created queue with size")
    /\ pc' = "build"
    /\ UNCHANGED <<panic, cl_error, devices, device_id, device, context, queue, program,
                   kernel, buffers, eventVars, devVars, result, stdout, profVars>>

\* Program::create_and_build_from_source(&context, PROGRAM_SOURCE, "").map_err(..).unwrap()
BuildProgram ==
    /\ Running /\ pc = "build"
    /\ \/ \E err \in BackendErrors \cup {"CL_BUILD_PROGRAM_FAILURE"} :
            Fail("Program::create_and_build_from_source failed", err)
       \/ /\ program' = TRUE
          /\ pc' = "kernel_create"
          /\ UNCHANGED <<panic, cl_error, devices, device_id, device, context, queue,
                         queue_size, kernel, buffers, eventVars, devVars, result, outVars,
                         profVars>>

\* Kernel::create(&program, KERNEL_NAME).map_err(..).unwrap()
KernelCreate ==
    /\ Running /\ pc = "kernel_create"
    /\ \/ \E err \in BackendErrors : Fail("Failed to create kernel", err)
       \/ /\ kernel' = KERNEL_NAME
          /\ log' = Append(log, "Created program + kernel")
          /\ pc' = "buffer_x"
          /\ UNCHANGED <<panic, cl_error, devices, device_id, device, context, queue,
                         queue_size, program, buffers, eventVars, devVars, result, stdout,
                         profVars>>

\* Buffer::<cl_float>::create(&context, flags, ARRAY_SIZE, ptr::null_mut()).map_err(..).unwrap()
CreateBuffer(at, name, flags, next) ==
    /\ Running /\ pc = at
    /\ \/ \E err \in BackendErrors : Fail("Failed to create buffer", err)
       \/ /\ buffers' = [b \in DOMAIN buffers \cup {name} |->
                            IF b = name THEN flags ELSE buffers[b]]
          /\ pc' = next
          /\ UNCHANGED <<panic, cl_error, hostObjs, eventVars, devVars, result, outVars,
                         profVars>>

CreateBufferX == CreateBuffer("buffer_x", "x", CL_MEM_READ_ONLY, "buffer_y")
CreateBufferY == CreateBuffer("buffer_y", "y", CL_MEM_READ_ONLY, "buffer_z")
CreateBufferZ == CreateBuffer("buffer_z", "z", CL_MEM_WRITE_ONLY, "write_x")
\* Appending a command to the queue; the event returned is its position in the queue.
Enqueue(cmd) == Append(fifo, cmd)

\* &[] : the two writes name no event to wait for.
WriteWaitList == {}

\* Variant: the writes are made with CL_BLOCKING.
WriteBlockingSet == CL_BLOCKING

\* The blocking flag main passes to both enqueue_write_buffer calls.
WriteBlocking == CL_NON_BLOCKING

\* queue.enqueue_write_buffer(&mut x, CL_NON_BLOCKING, 0, &sums, &[]).map_err(..).unwrap()
EnqueueWriteX ==
    /\ Running /\ pc = "write_x"
    /\ \/ \E err \in BackendErrors : Fail("Failed to write to buffer", err)
       \/ /\ fifo' = Enqueue(Command("write", "x", "sums", <<>>, 0, ARRAY_SIZE,
                                     WriteWaitList, WriteBlocking))
          /\ x_write_event' = Len(fifo) + 1
          /\ pc' = "write_y"
          /\ UNCHANGED <<panic, cl_error, hostObjs, buffers, y_write_event, kernel_event,
                         read_event, mem, clock, result, outVars, profVars>>

\* queue.enqueue_write_buffer(&mut y, CL_NON_BLOCKING, 0, &sums, &[]).map_err(..).unwrap()
EnqueueWriteY ==
    /\ Running /\ pc = "write_y"
    /\ \/ \E err \in BackendErrors : Fail("Failed to write to buffer", err)
       \/ /\ fifo' = Enqueue(Command("write", "y", "sums", <<>>, 0, ARRAY_SIZE,
                                     WriteWaitList, WriteBlocking))
          /\ y_write_event' = Len(fifo) + 1
          /\ pc' = "enqueue_kernel"
          /\ UNCHANGED <<panic, cl_error, hostObjs, buffers, x_write_event, kernel_event,
                         read_event, mem, clock, result, outVars, profVars>>

\* .set_arg(&z).set_arg(&x).set_arg(&y).set_arg(&a)
KernelArgs == <<"z", "x", "y">>

\* Variant: the second set_wait_event is forgotten.
KernelWaitListOnlyX == {x_write_event}

\* .set_wait_event(&x_write_event).set_wait_event(&y_write_event)
KernelWaitList == {x_write_event, y_write_event}

\* ExecuteKernel::new(&kernel) ... .set_global_work_size(ARRAY_SIZE) ...
\*     .enqueue_nd_range(&queue).map_err(..).unwrap()
EnqueueKernel ==
    /\ Running /\ pc = "enqueue_kernel"
    /\ \/ \E err \in BackendErrors : Fail("Failed to execute kernel", err)
       \/ /\ fifo' = Enqueue(Command("kernel", KernelArgs[1], "", KernelArgs, a, ARRAY_SIZE,
                                     KernelWaitList, FALSE))
          /\ kernel_event' = Len(fifo) + 1
          /\ pc' = "enqueue_read"
          /\ UNCHANGED <<panic, cl_error, hostObjs, buffers, x_write_event, y_write_event,
                         read_event, mem, clock, result, outVars, profVars>>

\* Variant: the events vector is left empty.
ReadWaitListEmpty == {}

\* Variant: a null event is pushed beside the kernel event.
ReadWaitListWithNull == {kernel_event, 0}

\* let mut events = Vec::<cl_event>::default(); events.push(kernel_event.get());
ReadWaitList == {kernel_event}

\* The blocking flag main passes to enqueue_read_buffer.
ReadBlocking == CL_NON_BLOCKING

\* let mut result = [0.0; ARRAY_SIZE];
\* queue.enqueue_read_buffer(&z, CL_NON_BLOCKING, 0, &mut result, &events).map_err(..).unwrap()
EnqueueRead ==
    /\ Running /\ pc = "enqueue_read"
    /\ \/ \E err \in BackendErrors :
            /\ result' = Zeros
            /\ panic' = "Failed to read buffer"
            /\ cl_error' = err
            /\ UNCHANGED <<pc, hostObjs, buffers, eventVars, devVars, outVars, profVars>>
       \/ /\ result' = Zeros
          /\ fifo' = Enqueue(Command("read", "z", "", <<>>, 0, ARRAY_SIZE,
                                     ReadWaitList, ReadBlocking))
          /\ read_event' = Len(fifo) + 1
          /\ pc' = "wait"
          /\ UNCHANGED <<panic, cl_error, hostObjs, buffers, x_write_event, y_write_event,
                         kernel_event, mem, clock, outVars, profVars>>

\* Variant: the wait is left out and the host goes straight on.
WaitSkipped == TRUE

\* read_event.wait() returns Ok once the event's command is complete.
WaitReturns == Complete(read_event)

\* read_event.wait().map_err(..).unwrap()
WaitRead ==
    /\ Running /\ pc = "wait"
    /\ \/ \E err \in BackendErrors : Fail("Failed to wait to read buffer", err)
       \/ /\ WaitReturns
          /\ pc' = "print_front"
          /\ UNCHANGED <<panic, cl_error, hostObjs, buffers, eventVars, devVars, result,
                         outVars, profVars>>

\* println!("results front: {}", result[0]);
PrintFront ==
    /\ Running /\ pc = "print_front"
    /\ stdout' = Append(stdout, [line |-> "results front", value |-> result[0]])
    /\ pc' = "print_back"
    /\ UNCHANGED <<panic, cl_error, hostObjs, buffers, eventVars, devVars, result, log,
                   profVars>>

\* println!("results back: {}", result[ARRAY_SIZE - 1]);
PrintBack ==
    /\ Running /\ pc = "print_back"
    /\ stdout' = Append(stdout, [line |-> "results back", value |-> result[ARRAY_SIZE - 1]])
    /\ pc' = "profiling_start"
    /\ UNCHANGED <<panic, cl_error, hostObjs, buffers, eventVars, devVars, result, log,
                   profVars>>

\* clGetEventProfilingInfo is refused unless the queue was created with
\* CL_QUEUE_PROFILING_ENABLE and the event's command is complete.
ProfilingAvailable(e) == CL_QUEUE_PROFILING_ENABLE \in queue.properties /\ Complete(e)

\* kernel_event.profiling_command_start().map_err(..).unwrap()
ProfilingCommandStart ==
    /\ Running /\ pc = "profiling_start"
    /\ IF ~ProfilingAvailable(kernel_event)
       THEN Fail("Failed to start profiling command", "CL_PROFILING_INFO_NOT_AVAILABLE")
       ELSE \/ \E err \in BackendErrors : Fail("Failed to start profiling command", err)
            \/ /\ start_time' = fifo[kernel_event].start
               /\ pc' = "profiling_end"
               /\ UNCHANGED <<panic, cl_error, hostObjs, buffers, eventVars, devVars, result,
                              outVars, end_time, duration>>

\* kernel_event.profiling_command_end().map_err(..).unwrap()
ProfilingCommandEnd ==
    /\ Running /\ pc = "profiling_end"
    /\ IF ~ProfilingAvailable(kernel_event)
       THEN Fail("Failed to end profiling command", "CL_PROFILING_INFO_NOT_AVAILABLE")
       ELSE \/ \E err \in BackendErrors : Fail("Failed to end profiling command", err)
            \/ /\ end_time' = fifo[kernel_event].end
               /\ pc' = "duration"
               /\ UNCHANGED <<panic, cl_error, hostObjs, buffers, eventVars, devVars, result,
                              outVars, start_time, duration>>

\* let duration = end_time - start_time; tracing::info!(..); Ok(())
\* u64 subtraction: below zero it panics where overflow checks are compiled in and
\* wraps where they are not (a negative duration here stands for the wrapped value
\* 2^64 + end_time - start_time).
ReportDuration ==
    /\ Running /\ pc = "duration"
    /\ \/ /\ end_time < start_time
          /\ Fail("attempt to subtract with overflow", "CL_SUCCESS")
       \/ /\ duration' = end_time - start_time
          /\ log' = Append(log, "Kernel execution time (ns)")
          /\ pc' = "done"
          /\ UNCHANGED <<panic, cl_error, hostObjs, buffers, eventVars, devVars, result,
                         stdout, start_time, end_time>>

HostNext ==
    \/ GetAllDevices \/ DeviceNew \/ ContextFromDevice \/ CreateQueue \/ QueueSize
    \/ BuildProgram \/ KernelCreate \/ CreateBufferX \/ CreateBufferY \/ CreateBufferZ
    \/ EnqueueWriteX \/ EnqueueWriteY \/ EnqueueKernel \/ EnqueueRead \/ WaitRead
    \/ PrintFront \/ PrintBack \/ ProfilingCommandStart \/ ProfilingCommandEnd
    \/ ReportDuration

\* ---------------------------------------------------------- device actions
\* The process is alive: its queue and the commands on it still exist.
Alive == panic = "none" /\ pc /= "done"

\* A command may start once every event of its wait-list is complete and, on a queue
\* without out-of-order execution, once every command submitted before it is complete.
MayStart(i) ==
    /\ fifo[i].status = "queued"
    /\ \A e \in fifo[i].wait : Complete(e)
    /\ CL_QUEUE_OUT_OF_ORDER_EXEC_MODE_ENABLE \notin queue.properties
          => \A j \in 1 .. (i - 1) : Complete(j)

DeviceStart(i) ==
    /\ Alive
    /\ MayStart(i)
    /\ fifo' = [fifo EXCEPT ![i].status = "running", ![i].start = clock]
    /\ UNCHANGED <<pc, panic, cl_error, hostObjs, buffers, eventVars, mem, clock, result,
                   outVars, profVars>>

\* What a command leaves in device memory when it completes.
Effect(cmd) ==
    CASE cmd.op = "write" -> [mem EXCEPT ![cmd.target] = HostArray(cmd.src)]
      [] cmd.op = "kernel" ->
            [mem EXCEPT ![cmd.args[1]] =
                saxpy_float(mem[cmd.args[2]], mem[cmd.args[3]], cmd.scalar, cmd.gws)]
      [] OTHER -> mem

DeviceComplete(i) ==
    /\ Alive
    /\ fifo[i].status = "running"
    /\ fifo' = [fifo EXCEPT ![i].status = "complete", ![i].end = clock]
    /\ mem' = Effect(fifo[i])
    /\ result' = IF fifo[i].op = "read" THEN mem[fifo[i].target] ELSE result
    /\ UNCHANGED <<pc, panic, cl_error, hostObjs, buffers, eventVars, clock, outVars,
                   profVars>>

DeviceStep == \E i \in DOMAIN fifo : DeviceStart(i) \/ DeviceComplete(i)

\* Device time passes; it is observed only through the timestamps of the commands,
\* so it is left to advance only while a command is pending on the queue.
Tick ==
    /\ Alive
    /\ \E i \in DOMAIN fifo : fifo[i].status /= "complete"
    /\ clock < MaxTime
    /\ clock' = clock + 1
    /\ UNCHANGED <<pc, panic, cl_error, hostObjs, buffers, eventVars, fifo, mem, result,
                   outVars, profVars>>

Next == HostNext \/ DeviceStep \/ Tick

Spec == Init /\ [][Next]_vars

\* The host thread runs whenever it can, and the device makes progress on every
\* command that is ready.
FairSpec == Spec /\ WF_vars(HostNext) /\ WF_vars(DeviceStep)
\* ------------------------------------------------------------- properties
Order ==
    <<"get_all_devices", "device_new", "context", "queue", "queue_size", "build",
      "kernel_create", "buffer_x", "buffer_y", "buffer_z", "write_x", "write_y",
      "enqueue_kernel", "enqueue_read", "wait", "print_front", "print_back",
      "profiling_start", "profiling_end", "duration", "done">>

\* Position of a call in main.
Idx(p) == CHOOSE k \in DOMAIN Order : Order[k] = p

Cmds(op) == {i \in DOMAIN fifo : fifo[i].op = op}

Started(i) == fifo[i].status /= "queued"

TimeLine == "Kernel execution time (ns)"

Logged(l) == \E k \in DOMAIN log : log[k] = l

\* A call into the backend failed (and the run panicked on it).
BackendFailed == panic /= "none" /\ panic /= "attempt to subtract with overflow"

\* C1: in the reference run the result array after the final wait holds
\* result[0] = 301.0 and result[1023] = 1324.0, that is result[i] = a*x[i] + y[i]
\* for x[i] = 1.0 and y[i] = 1.0 + i, the kernel arguments being (z, x, y, a).
C1_ReferenceResult ==
    pc \in {"print_front", "print_back", "profiling_start", "profiling_end", "duration", "done"}
        => /\ result[0] = 301
           /\ result[1023] = 1324
           /\ \A i \in Indices : result[i] = a * ones[i] + sums[i]
           /\ \A i \in Cmds("kernel") : fifo[i].args = <<"z", "x", "y">> /\ fifo[i].scalar = a

\* C2: the kernel's wait-list is exactly the two write events (the writes of x and
\* of y), and the kernel never runs before both writes are complete.
C2_KernelAfterWrites ==
    \A i \in Cmds("kernel") :
        /\ fifo[i].wait = {x_write_event, y_write_event}
        /\ Cardinality(fifo[i].wait) = 2
        /\ x_write_event \in Cmds("write") /\ fifo[x_write_event].target = "x"
        /\ y_write_event \in Cmds("write") /\ fifo[y_write_event].target = "y"
        /\ Started(i) => Complete(x_write_event) /\ Complete(y_write_event)

C2_Witness ==
    \E i \in Cmds("kernel") :
        fifo[i].status = "running" /\ Complete(x_write_event) /\ Complete(y_write_event)

\* C3: the host prints an element of the result array only when the read event is
\* complete, and from the moment the wait has returned the result array holds the
\* kernel's output in full; each printed value is an element of that output.
C3_NoPrintBeforeRead ==
    /\ (pc \in {"print_front", "print_back"} \/ stdout /= <<>>)
          => /\ Complete(read_event)
             /\ Complete(kernel_event)
             /\ Len(stdout) >= 1 => stdout[1].value = mem["z"][0]
             /\ Len(stdout) >= 2 => stdout[2].value = mem["z"][ARRAY_SIZE - 1]
    /\ pc = "print_front"
          => /\ result = mem["z"]
             /\ result = saxpy_float(mem["x"], mem["y"], a, ARRAY_SIZE)
             /\ \A i \in Indices : result[i] /= Undef

C3_Witness == Len(stdout) = 2 /\ Complete(read_event)

NothingCreated ==
    /\ device_id = 0 /\ device = 0
    /\ ~context.created /\ ~queue.created /\ ~program /\ kernel = ""
    /\ DOMAIN buffers = {} /\ fifo = <<>>

\* C4: an empty enumeration ends the run with "No device found" before any context,
\* queue, program, buffer or command exists; otherwise the first enumerated device
\* is the device of every later object.
C4_DeviceResolution ==
    /\ devices = <<>> => NothingCreated /\ pc = "get_all_devices"
    /\ panic = "No device found" => devices = <<>> /\ NothingCreated
    /\ devices /= <<>> =>
        /\ panic /= "No device found"
        /\ device_id = devices[1]
        /\ device /= 0 => device = devices[1]
        /\ context.created => context.devices = <<devices[1]>>
        /\ queue.created => queue.device = devices[1]

C4_Witness == panic = "No device found" /\ devices = <<>>

\* What each call leaves behind is found only once the host is past that call.
NoLaterPhase ==
    /\ device_id /= 0 => Idx(pc) > Idx("get_all_devices")
    /\ device /= 0 => Idx(pc) > Idx("device_new")
    /\ context.created => Idx(pc) > Idx("context")
    /\ queue.created => Idx(pc) > Idx("queue")
    /\ queue_size /= QueueSizeUnset => Idx(pc) > Idx("queue_size")
    /\ program => Idx(pc) > Idx("build")
    /\ kernel /= "" => Idx(pc) > Idx("kernel_create")
    /\ "x" \in DOMAIN buffers => Idx(pc) > Idx("buffer_x")
    /\ "y" \in DOMAIN buffers => Idx(pc) > Idx("buffer_y")
    /\ "z" \in DOMAIN buffers => Idx(pc) > Idx("buffer_z")
    /\ x_write_event /= 0 => Idx(pc) > Idx("write_x")
    /\ y_write_event /= 0 => Idx(pc) > Idx("write_y")
    /\ kernel_event /= 0 => Idx(pc) > Idx("enqueue_kernel")
    /\ read_event /= 0 => Idx(pc) > Idx("enqueue_read")
    /\ Len(stdout) >= 1 => Idx(pc) > Idx("print_front")
    /\ Len(stdout) >= 2 => Idx(pc) > Idx("print_back")
    /\ Logged(TimeLine) => pc = "done"
    /\ Len(fifo) = Cardinality({e \in {x_write_event, y_write_event, kernel_event, read_event} : e /= 0})

\* C5 as claimed: a run ended by the failure of a backend call (the queue-size
\* query apart) has executed no later phase and has output no result line.
C5_NoOutputOnFailure ==
    BackendFailed => NoLaterPhase /\ stdout = <<>>

\* C5 as amended: a run ended by the failure of a backend call stops where it
\* stands (no later phase, no retry, no further step); it has output no result line
\* unless the failed call is a profiling query, which comes after the two result
\* lines and before the execution-time line.
C5_AbortOnFailure ==
    /\ [](BackendFailed =>
            /\ NoLaterPhase
            /\ pc \notin {"queue_size", "done"}
            /\ ~Logged(TimeLine)
            /\ pc \notin {"profiling_start", "profiling_end"} => stdout = <<>>
            /\ pc \in {"profiling_start", "profiling_end"} => Len(stdout) = 2)
    /\ [][panic /= "none" => UNCHANGED vars]_vars

C5_Witness ==
    /\ panic = "Failed to start profiling command"
    /\ pc = "profiling_start"
    /\ Len(stdout) = 2

\* C6: a failed queue-size query ends nothing: the size is recorded as None, the host
\* goes on to the program build exactly as after a successful query, and a finished
\* run has the same result and output whatever the query returned.
C6_QueueSizeNonFatal ==
    /\ [][(pc = "queue_size" /\ <<pc, panic, queue_size, log>> /= <<pc, panic, queue_size, log>>')
            => /\ pc' = "build"
               /\ panic' = "none"
               /\ queue_size' \in {QueueSizeNone} \cup {QueueSizeSome(n) : n \in QueueSizeValues}
               /\ log' = Append(log, "Created queue with size")
               /\ UNCHANGED <<cl_error, devices, device_id, device, context, queue, program,
                              kernel, buffers, eventVars, devVars, result, stdout, profVars>>]_vars
    /\ [](panic /= "Failed to get queue size")
    /\ [](pc = "done" =>
            /\ result = saxpy_float(sums, sums, a, ARRAY_SIZE)
            /\ Len(stdout) = 2
            /\ stdout[1].value = result[0] /\ stdout[2].value = result[ARRAY_SIZE - 1]
            /\ log = <<"Found device", "Constructed device", "Constructed context",
                       "Created queue with size", "Created program + kernel", TimeLine>>)

C6_Witness == pc = "done" /\ queue_size = QueueSizeNone

\* C7: whenever the host queries the kernel event's timestamps the queue has
\* profiling enabled and the kernel event is complete, so the query is never refused
\* as unavailable; end_time >= start_time and the duration does not underflow.
C7_ProfilingValid ==
    /\ pc \in {"profiling_start", "profiling_end"} =>
        /\ CL_QUEUE_PROFILING_ENABLE \in queue.properties
        /\ Complete(kernel_event)
    /\ cl_error /= "CL_PROFILING_INFO_NOT_AVAILABLE"
    /\ panic /= "attempt to subtract with overflow"
    /\ pc \in {"duration", "done"} =>
        /\ start_time = fifo[kernel_event].start
        /\ end_time = fifo[kernel_event].end
        /\ end_time >= start_time
    /\ pc = "done" => duration = end_time - start_time /\ duration >= 0

C7_Witness == pc = "done" /\ duration > 0

\* C8: the read of z is enqueued non-blocking with a wait-list that is exactly the
\* kernel's event, and it never runs before the kernel is complete.
C8_ReadAfterKernel ==
    \A i \in Cmds("read") :
        /\ fifo[i].wait = {kernel_event}
        /\ kernel_event \in Cmds("kernel")
        /\ fifo[i].target = "z"
        /\ fifo[i].blocking = CL_NON_BLOCKING
        /\ Started(i) => Complete(kernel_event)

C8_Witness == \E i \in Cmds("read") : fifo[i].status = "running" /\ Complete(kernel_event)

Returned == {x_write_event, y_write_event, kernel_event, read_event} \ {0}

\* C9: every enqueued command targets buffers that are allocated, and every event of
\* its wait-list was returned by an earlier enqueue call: none for the two writes,
\* only the two write events for the kernel, only the kernel event for the read.
C9_EnqueuedWellFormed ==
    \A i \in DOMAIN fifo :
        /\ fifo[i].target \in DOMAIN buffers
        /\ \A k \in DOMAIN fifo[i].args : fifo[i].args[k] \in DOMAIN buffers
        /\ \A e \in fifo[i].wait : e \in Returned /\ e \in 1 .. (i - 1)
        /\ fifo[i].op = "write" => fifo[i].wait = {}
        /\ fifo[i].op = "kernel" =>
              fifo[i].wait \subseteq {x_write_event, y_write_event} \cap Cmds("write")
        /\ fifo[i].op = "read" => fifo[i].wait \subseteq {kernel_event} \cap Cmds("kernel")

C9_Witness == Len(fifo) = 4 /\ DOMAIN buffers = {"x", "y", "z"}

\* C10: if no call fails and the device completes every command that is ready, the
\* run ends successfully with the two result lines and the execution-time line
\* output; the host is never held inside an enqueue call, and the wait on the read
\* event is the only call at which it can be held.
C10_Terminates ==
    /\ [](panic = "none") =>
          <>(pc = "done" /\ Len(stdout) = 2 /\ log[Len(log)] = TimeLine)
    /\ [](~InBlockingCall)
    /\ []((Alive /\ ~ENABLED (HostNext /\ panic' = "none"))
            => (pc = "wait" /\ ~Complete(read_event)))

C10_Witness == pc = "done" /\ panic = "none" /\ Len(stdout) = 2 /\ Logged(TimeLine)
====
